---- MODULE Spec2Model ----
(***************************************************************************)
(* NDA Guardian: hybrid routing (main.py), tool dispatch (nda_tools.py),   *)
(* clause store (document_store.py) and the HTTP session (backend/).       *)
(*                                                                         *)
(* Representation.  A Python dict read with .get is a function whose       *)
(* DOMAIN is the set of keys present; a dict whose order matters (the      *)
(* clause map, the parties) is a sequence of [key, text] records in        *)
(* insertion order.  A str is a TLA+ string, handled character by          *)
(* character; the regular expressions of the source are matchers over      *)
(* indices, 1-based, with 0 for no match.  Whitespace is the space and     *)
(* the newline.  A confidence is an integer number of hundredths (0.72     *)
(* is 72); elapsed times are whole milliseconds.                           *)
(*                                                                         *)
(* Three specifications share the variables: SpecRoute (one                *)
(* generate_hybrid call), SpecExec (one execute_tool call) and Spec (the   *)
(* HTTP endpoints in any order).                                           *)
(***************************************************************************)
EXTENDS Integers, Sequences, FiniteSets, TLC

VARIABLES
    raw_str,      \* main.py: output of cactus_complete for the last request
    cloud_resp,   \* main.py: what generate_cloud answers for the last request
    threshold,    \* main.py: confidence_threshold of the last generate_hybrid call
    routing,      \* main.py: outcome of the last generate_hybrid call, or NoRouting
    CLAUSES,      \* document_store.py: the module global CLAUSES
    ex_tool,      \* nda_tools.py: tool_name of the execute_tool call
    ex_args,      \* nda_tools.py: arguments of the execute_tool call
    ex_map,       \* nda_tools.py: clauses of the execute_tool call
    ex_result,    \* nda_tools.py: what the call returned, NotCalled before it
    session,      \* backend/session.py: the singleton Session
    loaded_text,  \* the text of the last load that succeeded
    elaborated,   \* backend/app.py: the _gemini_elaborate calls of the last request
    response,     \* backend/app.py: the response to the last request
    ds_call       \* document_store.py: the last direct call of a lookup function

routeVars == <<raw_str, cloud_resp, threshold, routing>>

execVars == <<CLAUSES, ex_tool, ex_args, ex_map, ex_result>>

appVars == <<session, loaded_text, elaborated, response>>

storeVars == <<ds_call>>

vars == <<raw_str, cloud_resp, threshold, routing,
          CLAUSES, ex_tool, ex_args, ex_map, ex_result,
          session, loaded_text, elaborated, response, ds_call>>

-----------------------------------------------------------------------------
(* Python dict helpers *)

Get(d, k, default) == IF k \in DOMAIN d THEN d[k] ELSE default

Put(d, k, v) == [x \in DOMAIN d \cup {k} |-> IF x = k THEN v ELSE d[x]]

EmptyDict == [x \in {} |-> 0]

\* d.get(k) used as a condition: a missing key gives None, which is false
GetFlag(d, k) == k \in DOMAIN d /\ d[k]

-----------------------------------------------------------------------------
(* Python str, character by character.  A string is indexed from 1; At gives *)
(* one character as a string of length 1.  Whitespace is the space and the   *)
(* newline.                                                                  *)

At(s, i) == SubSeq(s, i, i)

Digit == {"0", "1", "2", "3", "4", "5", "6", "7", "8", "9"}

UpperCase == {"A", "B", "C", "D", "E", "F", "G", "H", "I", "J", "K", "L", "M",
              "N", "O", "P", "Q", "R", "S", "T", "U", "V", "W", "X", "Y", "Z"}

LowerCase == {"a", "b", "c", "d", "e", "f", "g", "h", "i", "j", "k", "l", "m",
              "n", "o", "p", "q", "r", "s", "t", "u", "v", "w", "x", "y", "z"}

Whitespace == {" ", "\n"}

\* \w of the regular expressions
WordChar == UpperCase \cup LowerCase \cup Digit \cup {"_"}

LowerOf ==
    [A |-> "a", B |-> "b", C |-> "c", D |-> "d", E |-> "e", F |-> "f", G |-> "g",
     H |-> "h", I |-> "i", J |-> "j", K |-> "k", L |-> "l", M |-> "m", N |-> "n",
     O |-> "o", P |-> "p", Q |-> "q", R |-> "r", S |-> "s", T |-> "t", U |-> "u",
     V |-> "v", W |-> "w", X |-> "x", Y |-> "y", Z |-> "z"]

UpperOf ==
    [a |-> "A", b |-> "B", c |-> "C", d |-> "D", e |-> "E", f |-> "F", g |-> "G",
     h |-> "H", i |-> "I", j |-> "J", k |-> "K", l |-> "L", m |-> "M", n |-> "N",
     o |-> "O", p |-> "P", q |-> "Q", r |-> "R", s |-> "S", t |-> "T", u |-> "U",
     v |-> "V", w |-> "W", x |-> "X", y |-> "Y", z |-> "Z"]

\* str.lower(), by halves
RECURSIVE lower(_)
lower(s) ==
    IF Len(s) = 0 THEN ""
    ELSE IF Len(s) = 1 THEN (IF s \in UpperCase THEN LowerOf[s] ELSE s)
    ELSE LET h == Len(s) \div 2
         IN  lower(SubSeq(s, 1, h)) \o lower(SubSeq(s, h + 1, Len(s)))

\* s[i-1:].startswith(p)
StartsWithAt(s, i, p) ==
    /\ i >= 1
    /\ i + Len(p) - 1 <= Len(s)
    /\ SubSeq(s, i, i + Len(p) - 1) = p

\* some alternative of ps starts at i
AnyStartsAt(s, i, ps) == \E p \in ps : StartsWithAt(s, i, p)

\* the index after the longest run of characters of class that starts at i
RunEnd(s, i, class) ==
    CHOOSE j \in i..(Len(s) + 1) :
        /\ j = Len(s) + 1 \/ At(s, j) \notin class
        /\ \A k \in i..(j - 1) : At(s, k) \in class

\* the index after the longest run of characters outside class that starts at i
RunEndNot(s, i, class) ==
    CHOOSE j \in i..(Len(s) + 1) :
        /\ j = Len(s) + 1 \/ At(s, j) \in class
        /\ \A k \in i..(j - 1) : At(s, k) \notin class

\* s.find(p, from-1) + 1: the first index >= from where p starts, 0 if none
find(s, p, from) ==
    IF \E i \in from..Len(s) : StartsWithAt(s, i, p)
    THEN CHOOSE i \in from..Len(s) :
            /\ StartsWithAt(s, i, p)
            /\ \A k \in from..(i - 1) : ~StartsWithAt(s, k, p)
    ELSE 0

\* s.rfind(p) + 1: the last index where p starts, 0 if none
rfind(s, p) ==
    IF \E i \in 1..Len(s) : StartsWithAt(s, i, p)
    THEN CHOOSE i \in 1..Len(s) :
            /\ StartsWithAt(s, i, p)
            /\ \A k \in (i + 1)..Len(s) : ~StartsWithAt(s, k, p)
    ELSE 0

\* p in s
Contains(s, p) == \E i \in 1..(Len(s) - Len(p) + 1) : StartsWithAt(s, i, p)

\* str.strip(chars)
StripChars(s, chars) ==
    IF \A i \in 1..Len(s) : At(s, i) \in chars THEN ""
    ELSE LET a == RunEnd(s, 1, chars)
             b == CHOOSE j \in a..Len(s) :
                     /\ At(s, j) \notin chars
                     /\ \A k \in (j + 1)..Len(s) : At(s, k) \in chars
         IN  SubSeq(s, a, b)

\* str.strip()
strip(s) == StripChars(s, Whitespace)

\* str.replace(old, new), old not empty, from index from on
RECURSIVE ReplaceFrom(_, _, _, _)
ReplaceFrom(s, old, new, from) ==
    LET i == find(s, old, from)
    IN  IF i = 0 THEN SubSeq(s, from, Len(s))
        ELSE SubSeq(s, from, i - 1) \o new \o ReplaceFrom(s, old, new, i + Len(old))

replace(s, old, new) == ReplaceFrom(s, old, new, 1)

\* str.split(): the words of s, from index from on
RECURSIVE SplitFrom(_, _)
SplitFrom(s, from) ==
    LET a == RunEnd(s, from, Whitespace)
    IN  IF a > Len(s) THEN <<>>
        ELSE LET b == RunEndNot(s, a, Whitespace)
             IN  <<SubSeq(s, a, b - 1)>> \o SplitFrom(s, b)

split(s) == SplitFrom(s, 1)

\* the number of words of s: len(s.split())
CountWords(s) ==
    Cardinality({i \in 1..Len(s) :
        At(s, i) \notin Whitespace /\ (i = 1 \/ At(s, i - 1) \in Whitespace)})

\* sep.join(parts)
RECURSIVE join(_, _)
join(sep, parts) ==
    IF Len(parts) = 0 THEN ""
    ELSE IF Len(parts) = 1 THEN parts[1]
    ELSE parts[1] \o sep \o join(sep, Tail(parts))

\* str.title() of one word character run after another
RECURSIVE title(_)
title(s) ==
    IF Len(s) = 0 THEN ""
    ELSE LET n == Len(s)
             prev == IF n = 1 THEN " " ELSE At(s, n - 1)
             c == At(s, n)
             cased == prev \in UpperCase \cup LowerCase
         IN  title(SubSeq(s, 1, n - 1)) \o
             (IF cased /\ c \in UpperCase THEN LowerOf[c]
              ELSE IF ~cased /\ c \in LowerCase THEN UpperOf[c]
              ELSE c)

-----------------------------------------------------------------------------
(* document_store.py: the clause map.  A dict[str, str] keeps its insertion *)
(* order (extract_parties joins the values in that order), so it is a        *)
(* sequence of [key, text] with distinct keys.                               *)

\* Python None where a str is expected; no text of the model is this string
None == "<None>"

HasKey(d, k) == \E i \in 1..Len(d) : d[i].key = k

\* d.get(k, default)
DictGet(d, k, default) ==
    IF HasKey(d, k) THEN d[CHOOSE i \in 1..Len(d) : d[i].key = k].text ELSE default

\* d[k] = v
DictSet(d, k, v) ==
    IF HasKey(d, k)
    THEN [i \in 1..Len(d) |-> IF d[i].key = k THEN [key |-> k, text |-> v] ELSE d[i]]
    ELSE Append(d, [key |-> k, text |-> v])

Keys(d) == {d[i].key : i \in 1..Len(d)}

\* the first index in from..to that satisfies P, 0 if none
FirstIndex(from, to, P(_)) ==
    IF \E i \in from..to : P(i)
    THEN CHOOSE i \in from..to : P(i) /\ \A k \in from..(i - 1) : ~P(k)
    ELSE 0

\* the last index in from..to that satisfies P, 0 if none
LastIndex(from, to, P(_)) ==
    IF \E i \in from..to : P(i)
    THEN CHOOSE i \in from..to : P(i) /\ \A k \in (i + 1)..to : ~P(k)
    ELSE 0

_CLAUSE_ALIASES ==
    <<[key |-> "confidentiality", text |-> "confidentiality"],
      [key |-> "confidential", text |-> "confidentiality"],
      [key |-> "nda", text |-> "confidentiality"],
      [key |-> "non_compete", text |-> "non_compete"],
      [key |-> "non-compete", text |-> "non_compete"],
      [key |-> "noncompete", text |-> "non_compete"],
      [key |-> "non compete", text |-> "non_compete"],
      [key |-> "restrictive covenant", text |-> "non_compete"],
      [key |-> "ip_assignment", text |-> "ip_assignment"],
      [key |-> "ip assignment", text |-> "ip_assignment"],
      [key |-> "intellectual property", text |-> "ip_assignment"],
      [key |-> "ip", text |-> "ip_assignment"],
      [key |-> "work product", text |-> "ip_assignment"],
      [key |-> "indemnification", text |-> "indemnification"],
      [key |-> "indemnity", text |-> "indemnification"],
      [key |-> "liability_cap", text |-> "liability_cap"],
      [key |-> "liability cap", text |-> "liability_cap"],
      [key |-> "limitation of liability", text |-> "liability_cap"],
      [key |-> "liability", text |-> "liability_cap"],
      [key |-> "term", text |-> "term"],
      [key |-> "term and termination", text |-> "term"],
      [key |-> "termination", text |-> "term"],
      [key |-> "duration", text |-> "term"],
      [key |-> "governing_law", text |-> "governing_law"],
      [key |-> "governing law", text |-> "governing_law"],
      [key |-> "jurisdiction", text |-> "governing_law"],
      [key |-> "dispute resolution", text |-> "governing_law"]>>

\* the keys of _SECTION_PATTERNS, in list order
SectionKeys ==
    <<"confidentiality", "non_compete", "ip_assignment", "indemnification",
      "liability_cap", "term", "governing_law", "general">>

\* re.search(_SECTION_PATTERNS[n][0], header), h being header.lower(): every
\* pattern is (?i)
SectionPatternMatches(n, h) ==
    CASE n = 1 -> Contains(h, "confidential")
      [] n = 2 -> \/ \E i \in 1..Len(h) :
                        /\ StartsWithAt(h, i, "non")
                        /\ \/ StartsWithAt(h, i + 3, "compete")
                           \/ /\ i + 3 <= Len(h)
                              /\ At(h, i + 3) # "\n"
                              /\ StartsWithAt(h, i + 4, "compete")
                  \/ Contains(h, "restrictive covenant")
      [] n = 3 -> \/ Contains(h, "intellectual property")
                  \/ Contains(h, "ip assignment")
                  \/ Contains(h, "work product")
      [] n = 4 -> Contains(h, "indemnif")
      [] n = 5 -> Contains(h, "limitation of liability") \/ Contains(h, "liability cap")
      [] n = 6 -> \/ /\ StartsWithAt(h, 1, "term")
                     /\ (Len(h) = 4 \/ At(h, 5) \notin WordChar)
                  \/ Contains(h, "term and termination")
                  \/ Contains(h, "termination")
      [] n = 7 -> \/ Contains(h, "governing law")
                  \/ Contains(h, "dispute resolution")
                  \/ Contains(h, "jurisdiction")
      [] n = 8 -> Contains(h, "general provisions") \/ Contains(h, "miscellaneous")

SlugChar == LowerCase \cup Digit

\* re.sub(r"[^a-z0-9]+", "_", s), from index from on
RECURSIVE SlugFrom(_, _)
SlugFrom(s, from) ==
    IF from > Len(s) THEN ""
    ELSE IF At(s, from) \in SlugChar
    THEN LET e == RunEnd(s, from, SlugChar)
         IN  SubSeq(s, from, e - 1) \o SlugFrom(s, e)
    ELSE "_" \o SlugFrom(s, RunEndNot(s, from, SlugChar))

\* the fallback of _identify_clause
slugify(header_text) == StripChars(SlugFrom(strip(lower(header_text)), 1), {"_"})

\* _identify_clause that lets the last matching pattern win
identify_clause_LastMatch(header_text) ==
    LET h == lower(header_text)
        n == LastIndex(1, Len(SectionKeys), LAMBDA k : SectionPatternMatches(k, h))
    IN  IF n > 0 THEN SectionKeys[n] ELSE slugify(header_text)

_identify_clause(header_text) ==
    LET h == lower(header_text)
        n == FirstIndex(1, Len(SectionKeys), LAMBDA k : SectionPatternMatches(k, h))
    IN  IF n > 0 THEN SectionKeys[n] ELSE slugify(header_text)

\* hr_pattern, \n\s*[-=]{3,}\s*\n, tried at index i: the index of the last
\* character of the match, 0 if there is no match at i
HrEnd(text, i) ==
    IF At(text, i) # "\n" THEN 0
    ELSE LET a == RunEnd(text, i + 1, Whitespace)
             b == RunEnd(text, a, {"-", "="})
             c == RunEnd(text, b, Whitespace)
         IN  IF b - a >= 3
             THEN LastIndex(b, c - 1, LAMBDA k : At(text, k) = "\n")
             ELSE 0

\* hr_pattern.split(text), from index from on
RECURSIVE HrSplitFrom(_, _)
HrSplitFrom(text, from) ==
    LET i == FirstIndex(from, Len(text), LAMBDA k : HrEnd(text, k) > 0)
    IN  IF i = 0 THEN <<SubSeq(text, from, Len(text))>>
        ELSE <<SubSeq(text, from, i - 1)>> \o HrSplitFrom(text, HrEnd(text, i) + 1)

\* the index after (?:\.\d+)* that starts at i
RECURSIVE SubNumbersEnd(_, _)
SubNumbersEnd(s, i) ==
    IF At(s, i) = "." /\ i + 1 <= Len(s) /\ At(s, i + 1) \in Digit
    THEN SubNumbersEnd(s, RunEnd(s, i + 1, Digit))
    ELSE i

TitleChar == UpperCase \cup Whitespace \cup {",", "(", ")", "&", "/", "'", "-"}

\* numbered_match.group(2) of ^(\d+(?:\.\d+)*)\.\s+([A-Z][A-Z\s,()&/'-]{3,}),
\* None when the section does not match
NumberedTitle(section) ==
    LET d == RunEnd(section, 1, Digit)
        e == SubNumbersEnd(section, d)
        w == RunEnd(section, e + 1, Whitespace)
        t == RunEnd(section, w + 1, TitleChar)
    IN  IF /\ d > 1
           /\ e <= Len(section) /\ At(section, e) = "."
           /\ w > e + 1
           /\ w <= Len(section) /\ At(section, w) \in UpperCase
           /\ t - (w + 1) >= 3
        THEN SubSeq(section, w, t - 1)
        ELSE None

PartyWords == {"between", "party", "parties", "corporation", "individual", "agreement"}

\* the body of the loop of load_document for one rough section
AddSection(clauses, rough) ==
    LET section == strip(rough)
        header == NumberedTitle(section)
    IN  IF section = "" THEN clauses
        ELSE IF header # None
        THEN LET key == _identify_clause(strip(header))
             IN  IF HasKey(clauses, key)
                 THEN DictSet(clauses, key, DictGet(clauses, key, "") \o "\n\n" \o section)
                 ELSE DictSet(clauses, key, section)
        ELSE IF \E w \in PartyWords : Contains(lower(section), w)
        THEN DictSet(clauses, "parties",
                     strip(DictGet(clauses, "parties", "") \o "\n\n" \o section))
        ELSE clauses

RECURSIVE LoadSections(_, _, _)
LoadSections(rough_sections, i, clauses) ==
    IF i > Len(rough_sections) THEN clauses
    ELSE LoadSections(rough_sections, i + 1, AddSection(clauses, rough_sections[i]))

\* load_document that adds to the clauses of the earlier load
load_document_Merging(text, current) == LoadSections(HrSplitFrom(text, 1), 1, current)

\* load_document: the new value of CLAUSES and the returned dict.  current is
\* CLAUSES at the call, which `CLAUSES = {}` discards.
load_document(text, current) == LoadSections(HrSplitFrom(text, 1), 1, <<>>)

-----------------------------------------------------------------------------
(* document_store.py: lookup, redacted summary, party and field extraction. *)
(* The module global CLAUSES is the parameter clauses.                       *)

\* Python truth value of a str or None
Falsy(v) == v = None \/ v = ""

normalize_clause_name_CaseSensitive(clause_name) ==
    LET lowered == strip(clause_name)
    IN  DictGet(_CLAUSE_ALIASES, lowered, replace(replace(lowered, "-", "_"), " ", "_"))

_normalize_clause_name(clause_name) ==
    LET lowered == strip(lower(clause_name))
    IN  DictGet(_CLAUSE_ALIASES, lowered, replace(replace(lowered, "-", "_"), " ", "_"))

\* get_clause: None if the key is not in CLAUSES
get_clause(clauses, clause_name) ==
    DictGet(clauses, _normalize_clause_name(clause_name), None)

\* s.split(sep), from index from on
RECURSIVE SplitOnFrom(_, _, _)
SplitOnFrom(s, sep, from) ==
    LET i == find(s, sep, from)
    IN  IF i = 0 THEN <<SubSeq(s, from, Len(s))>>
        ELSE <<SubSeq(s, from, i - 1)>> \o SplitOnFrom(s, sep, i + Len(sep))

\* re.match(r"^\s*\d+(?:\.\d+)*\.?\s+[A-Z]", line)
IsNumberedHeaderLine(line) ==
    LET a == RunEnd(line, 1, Whitespace)
        d == RunEnd(line, a, Digit)
        e == SubNumbersEnd(line, d)
        f == IF e <= Len(line) /\ At(line, e) = "." THEN e + 1 ELSE e
        w == RunEnd(line, f, Whitespace)
    IN  d > a /\ w > f /\ w <= Len(line) /\ At(line, w) \in UpperCase

\* re.match(r"^\s*[A-Z][A-Z\s,()&/'-]{6,}\s*$", line)
IsCapsTitleLine(line) ==
    LET a == RunEnd(line, 1, Whitespace)
        t == RunEnd(line, a + 1, TitleChar)
    IN  /\ a <= Len(line) /\ At(line, a) \in UpperCase
        /\ t = Len(line) + 1
        /\ t - (a + 1) >= 6

CompanySuffixes == <<"Corp", "Inc", "LLC", "Ltd", "Corporation", "Limited">>

\* the index after the first of the first n suffixes that starts at i, 0 if none
SuffixEnd(s, i, n) ==
    LET k == FirstIndex(1, n, LAMBDA a : StartsWithAt(s, i, CompanySuffixes[a]))
    IN  IF k = 0 THEN 0 ELSE i + Len(CompanySuffixes[k])

\* ([A-Z][a-z]+ (?:Corp|Inc|LLC|Ltd)[.,]) tried at i: the index of the [.,]
\* that ends the match, 0 if there is no match at i
ShortCompanyEnd(s, i) ==
    IF i > Len(s) \/ At(s, i) \notin UpperCase THEN 0
    ELSE LET e == RunEnd(s, i + 1, LowerCase)
             x == SuffixEnd(s, e + 1, 4)
         IN  IF e > i + 1 /\ StartsWithAt(s, e, " ") /\ x > 0
                /\ x <= Len(s) /\ At(s, x) \in {".", ","}
             THEN x ELSE 0

\* ([A-Z][a-z]+ [A-Z][a-z]+),? an individual tried at i: the index after
\* group 1, 0 if there is no match at i
IndividualEnd(s, i) ==
    IF i > Len(s) \/ At(s, i) \notin UpperCase THEN 0
    ELSE LET e == RunEnd(s, i + 1, LowerCase)
             g == RunEnd(s, e + 2, LowerCase)
             c == IF StartsWithAt(s, g, ",") THEN g + 1 ELSE g
         IN  IF /\ e > i + 1 /\ StartsWithAt(s, e, " ")
                /\ e + 1 <= Len(s) /\ At(s, e + 1) \in UpperCase
                /\ g > e + 2
                /\ StartsWithAt(s, c, " an individual")
             THEN g ELSE 0

\* group 1 of the individual pattern searched in s, None if it is not found
FindIndividual(s) ==
    LET i == FirstIndex(1, Len(s), LAMBDA k : IndividualEnd(s, k) > 0)
    IN  IF i = 0 THEN None ELSE SubSeq(s, i, IndividualEnd(s, i) - 1)

\* re.sub(r"\b(phrase)\b", new, s), from index from on; phrase starts and
\* ends with a word character
RECURSIVE SubWordFrom(_, _, _, _)
SubWordFrom(s, phrase, new, from) ==
    LET i == FirstIndex(from, Len(s), LAMBDA k :
                 /\ StartsWithAt(s, k, phrase)
                 /\ (k = 1 \/ At(s, k - 1) \notin WordChar)
                 /\ (k + Len(phrase) > Len(s) \/ At(s, k + Len(phrase)) \notin WordChar))
    IN  IF i = 0 THEN SubSeq(s, from, Len(s))
        ELSE SubSeq(s, from, i - 1) \o new \o SubWordFrom(s, phrase, new, i + Len(phrase))

_strip_party_names(clauses, text) ==
    LET parties_text == DictGet(clauses, "parties", "")
        ci == FirstIndex(1, Len(parties_text), LAMBDA k : ShortCompanyEnd(parties_text, k) > 0)
        \* company_match.group(1).rstrip(".,"): group 1 ends with one [.,]
        company_name == SubSeq(parties_text, ci, ShortCompanyEnd(parties_text, ci) - 1)
        t1 == IF ci = 0 THEN text ELSE replace(text, company_name, "Party A")
        individual_name == FindIndividual(parties_text)
        t2 == IF individual_name = None THEN t1 ELSE replace(t1, individual_name, "Party B")
    IN  SubWordFrom(SubWordFrom(t2, "the Company", "Party A", 1), "the Employee", "Party B", 1)

\* words[:n]
Take(seq, n) == SubSeq(seq, 1, IF n < Len(seq) THEN n ELSE Len(seq))

Max3(a, b, c) == IF a >= b /\ a >= c THEN a ELSE IF b >= c THEN b ELSE c

\* the end of get_clause_summary, from the truncated text on.  rfind counts
\* from 0 and gives -1 when there is no occurrence.
CutAtSentence(truncated, last_sentence_end) ==
    IF last_sentence_end > Len(truncated) \div 4
    THEN strip(SubSeq(truncated, 1, last_sentence_end + 1))
    ELSE strip(truncated) \o "..."

TruncatedSummary(truncated) ==
    CutAtSentence(truncated,
                  Max3(rfind(truncated, ". "), rfind(truncated, "! "),
                       rfind(truncated, "? ")) - 1)

\* get_clause_summary from `words = sanitized.split()` on
SummaryOfWords(sanitized, words, max_words) ==
    IF Len(words) <= max_words THEN strip(sanitized)
    ELSE TruncatedSummary(join(" ", Take(words, max_words)))

SummaryOfSanitized(sanitized, max_words) ==
    SummaryOfWords(sanitized, split(sanitized), max_words)

\* body_text: the lines that are no header, or the whole clause if none is left
BodyOrClause(stripped, clause_text) == IF stripped = "" THEN clause_text ELSE stripped

BodyText(clause_text) ==
    BodyOrClause(
        strip(join("\n", SelectSeq(SplitOnFrom(clause_text, "\n", 1), LAMBDA line :
                             ~IsNumberedHeaderLine(line) /\ ~IsCapsTitleLine(line)))),
        clause_text)

SummaryOfClause(clauses, clause_text, max_words) ==
    IF Falsy(clause_text) THEN ""
    ELSE SummaryOfSanitized(_strip_party_names(clauses, BodyText(clause_text)), max_words)

get_clause_summary(clauses, clause_name, max_words) ==
    SummaryOfClause(clauses, get_clause(clauses, clause_name), max_words)

\* ([A-Z][a-zA-Z\s]+ (?:Corp|Inc|LLC|Ltd|Corporation|Limited)) tried at i: the
\* index after group 1, 0 if there is no match at i.  The run is greedy, so
\* the last place in it where a space and a suffix follow is taken.
LongCompanyEnd(s, i) ==
    IF i > Len(s) \/ At(s, i) \notin UpperCase THEN 0
    ELSE LET r == RunEnd(s, i + 1, UpperCase \cup LowerCase \cup Whitespace)
             e == LastIndex(i + 1, r - 1, LAMBDA k :
                      StartsWithAt(s, k + 1, " ") /\ SuffixEnd(s, k + 2, 6) > 0)
         IN  IF e = 0 THEN 0 ELSE SuffixEnd(s, e + 2, 6)

\* extract_parties: a dict with the keys company and individual, when found
extract_parties(clauses) ==
    LET full_text == join("\n", [i \in 1..Len(clauses) |-> clauses[i].text])
        ci == FirstIndex(1, Len(full_text), LAMBDA k : LongCompanyEnd(full_text, k) > 0)
        company == IF ci = 0 THEN <<>>
                   ELSE <<[key |-> "company",
                           text |-> strip(SubSeq(full_text, ci, LongCompanyEnd(full_text, ci) - 1))]>>
        individual_name == FindIndividual(full_text)
        individual == IF individual_name = None THEN <<>>
                      ELSE <<[key |-> "individual", text |-> strip(individual_name)]>>
    IN  company \o individual

NumberWords ==
    <<"twenty-four", "twenty four", "twelve", "six", "thirty-six", "thirty six",
      "two", "three">>

\* (months?|years?|days?) tried at i of the lowered text: the index after the
\* match, 0 if there is no match at i
UnitEnd(low, i) ==
    LET u == IF StartsWithAt(low, i, "month") THEN i + 5
             ELSE IF StartsWithAt(low, i, "year") THEN i + 4
             ELSE IF StartsWithAt(low, i, "day") THEN i + 3
             ELSE 0
    IN  IF u = 0 THEN 0 ELSE IF StartsWithAt(low, u, "s") THEN u + 1 ELSE u

\* \s*(?:\(\d+\)\s*)?(months?|years?|days?) tried at i
AfterNumberEnd(low, i) ==
    LET a == RunEnd(low, i, Whitespace)
        d == RunEnd(low, a + 1, Digit)
        paren == StartsWithAt(low, a, "(") /\ d > a + 1 /\ StartsWithAt(low, d, ")")
    IN  IF paren THEN UnitEnd(low, RunEnd(low, d + 1, Whitespace)) ELSE UnitEnd(low, a)

\* the first duration pattern tried at i: the first number word, in list
\* order, after which the rest matches
WordDurationEnd(low, i) ==
    LET k == FirstIndex(1, Len(NumberWords), LAMBDA n :
                 /\ StartsWithAt(low, i, NumberWords[n])
                 /\ AfterNumberEnd(low, i + Len(NumberWords[n])) > 0)
    IN  IF k = 0 THEN 0 ELSE AfterNumberEnd(low, i + Len(NumberWords[k]))

\* the second duration pattern, (\d+)\s*(months?|years?|days?), tried at i
DigitDurationEnd(low, i) ==
    IF At(low, i) \notin Digit THEN 0
    ELSE UnitEnd(low, RunEnd(low, RunEnd(low, i, Digit), Whitespace))

\* (\d+)\s*mile\s*radius[^.]+\. tried at i of the lowered text: the index of
\* the closing period, 0 if there is no match at i
MileRadiusEnd(low, i) ==
    IF At(low, i) \notin Digit THEN 0
    ELSE LET a == RunEnd(low, RunEnd(low, i, Digit), Whitespace)
             b == RunEnd(low, a + 4, Whitespace)
             c == RunEndNot(low, b + 6, {"."})
         IN  IF /\ StartsWithAt(low, a, "mile")
                /\ StartsWithAt(low, b, "radius")
                /\ c > b + 6
                /\ c <= Len(low)
             THEN c ELSE 0

\* [A-Z][a-z]+ tried at i: the index after the match, 0 if there is none
CapitalizedEnd(s, i) ==
    IF i > Len(s) \/ At(s, i) \notin UpperCase THEN 0
    ELSE LET e == RunEnd(s, i + 1, LowerCase) IN IF e > i + 1 THEN e ELSE 0

\* \s+([A-Z][a-z]+(?:\s+[A-Z][a-z]+)?) tried at i: the index after the match
PlaceEnd(s, i) ==
    LET a == RunEnd(s, i, Whitespace)
        e == CapitalizedEnd(s, a)
        b == RunEnd(s, e, Whitespace)
        f == CapitalizedEnd(s, b)
    IN  IF i > Len(s) \/ a = i \/ e = 0 THEN 0
        ELSE IF b > e /\ f > 0 THEN f ELSE e

\* (?:State of|in)\s+(...) tried at i: the index after the match, 0 if none
StateEnd(s, i) ==
    IF StartsWithAt(s, i, "State of") /\ PlaceEnd(s, i + 8) > 0 THEN PlaceEnd(s, i + 8)
    ELSE IF StartsWithAt(s, i, "in") THEN PlaceEnd(s, i + 2)
    ELSE 0

\* \$[\d,]+(?:\.\d{2})?(?:\s*USD)? tried at i: the index after the match
AmountEnd(s, i) ==
    IF At(s, i) # "$" THEN 0
    ELSE LET a == RunEnd(s, i + 1, Digit \cup {","})
             b == IF /\ StartsWithAt(s, a, ".")
                     /\ a + 2 <= Len(s)
                     /\ At(s, a + 1) \in Digit /\ At(s, a + 2) \in Digit
                  THEN a + 3 ELSE a
             c == RunEnd(s, b, Whitespace)
         IN  IF a = i + 1 THEN 0
             ELSE IF StartsWithAt(s, c, "USD") THEN c + 3 ELSE b

SentenceEnd == {".", "!", "?"}

\* re.split(r"(?<=[.!?])\s+", s), from index from on
RECURSIVE SentencesFrom(_, _)
SentencesFrom(s, from) ==
    LET i == FirstIndex(from, Len(s), LAMBDA k :
                 k > 1 /\ At(s, k) \in Whitespace /\ At(s, k - 1) \in SentenceEnd)
    IN  IF i = 0 THEN <<SubSeq(s, from, Len(s))>>
        ELSE <<SubSeq(s, from, i - 1)>> \o SentencesFrom(s, RunEnd(s, i, Whitespace))

\* s[:300]
ExcerptLen == 300

Excerpt_Rest(s) == SubSeq(s, ExcerptLen + 1, Len(s))

Excerpt(s) == SubSeq(s, 1, IF Len(s) < ExcerptLen THEN Len(s) ELSE ExcerptLen)

\* the parties field: "; ".join(f"{k.title()}: {v}" ...) if any was found
RenderParties(parties) ==
    IF Len(parties) > 0
    THEN join("; ", [i \in 1..Len(parties) |->
                        title(parties[i].key) \o ": " \o parties[i].text])
    ELSE "Parties not found."

get_field_from_clause(clauses, clause_name, field_arg) ==
    LET clause_text == get_clause(clauses, clause_name) IN
    IF Falsy(clause_text) THEN "Clause '" \o clause_name \o "' not found in document."
    ELSE
    LET field == strip(lower(field_arg))
        low == lower(clause_text)
    IN
    CASE field = "duration" ->
            LET i == FirstIndex(1, Len(low), LAMBDA k : WordDurationEnd(low, k) > 0)
                j == FirstIndex(1, Len(low), LAMBDA k : DigitDurationEnd(low, k) > 0)
            IN  IF i > 0 THEN strip(SubSeq(clause_text, i, WordDurationEnd(low, i) - 1))
                ELSE IF j > 0 THEN strip(SubSeq(clause_text, j, DigitDurationEnd(low, j) - 1))
                ELSE "Duration not explicitly stated."
      [] field = "scope" ->
            LET i == FirstIndex(1, Len(low), LAMBDA k : MileRadiusEnd(low, k) > 0)
                j == FirstIndex(1, Len(clause_text), LAMBDA k : StateEnd(clause_text, k) > 0)
            IN  IF i > 0 THEN strip(SubSeq(clause_text, i, MileRadiusEnd(low, i)))
                ELSE IF j > 0
                THEN "Geographic scope: " \o strip(SubSeq(clause_text, j, StateEnd(clause_text, j) - 1))
                ELSE "Scope details not found."
      [] field = "amount" ->
            LET i == FirstIndex(1, Len(clause_text), LAMBDA k : AmountEnd(clause_text, k) > 0)
            IN  IF i > 0 THEN strip(SubSeq(clause_text, i, AmountEnd(clause_text, i) - 1))
                ELSE "No monetary amount found."
      [] field = "parties" ->
            RenderParties(extract_parties(clauses))
      [] field = "definition" ->
            LET sentences == SentencesFrom(strip(clause_text), 1)
                n == FirstIndex(1, Len(sentences), LAMBDA k : CountWords(sentences[k]) > 10)
            IN  IF n > 0 THEN strip(sentences[n]) ELSE strip(Excerpt(clause_text))
      [] OTHER -> strip(Excerpt(clause_text))

-----------------------------------------------------------------------------
(* nda_tools.py *)

\* _exec_extract_parties from `if not parties` on
PartiesAnswer(parties) ==
    IF Len(parties) = 0 THEN "Could not extract party names from document."
    ELSE join("; ", [i \in 1..Len(parties) |->
                        (IF parties[i].key = "company" THEN "Company: "
                         ELSE "Individual: ") \o parties[i].text])

_exec_extract_parties(clauses) == PartiesAnswer(extract_parties(clauses))

\* _exec_get_clause_info from `if not result` on
FieldOrNotFound(result, clause_type, field) ==
    IF result = ""
    THEN "Could not find '" \o field \o "' in " \o clause_type \o " clause."
    ELSE result

_exec_get_clause_info(clauses, clause_type, field) ==
    IF clause_type = "" THEN "Error: clause_type is required."
    ELSE FieldOrNotFound(
             get_field_from_clause(clauses, clause_type,
                                   IF field = "" THEN "definition" ELSE field),
             clause_type, field)

\* the raised AttributeError of a str method called on None
AttributeError == "<AttributeError>"

\* _exec_summarize_clause without its test of the looked-up text
exec_summarize_clause_Unchecked(clauses, clause_type) ==
    IF clause_type = "" THEN "Error: clause_type is required."
    ELSE LET text == get_clause(clauses, clause_type) IN
         IF text = None THEN AttributeError
         ELSE
         LET sentences == SentencesFrom(strip(text), 1)
             substantive == SelectSeq(sentences, LAMBDA x : CountWords(x) > 8)
         IN  IF Len(substantive) = 0 THEN strip(Excerpt(text))
             ELSE join(" ", Take(substantive, 2))

_exec_summarize_clause(clauses, clause_type) ==
    IF clause_type = "" THEN "Error: clause_type is required."
    ELSE LET text == get_clause(clauses, clause_type) IN
         IF Falsy(text) THEN "Clause '" \o clause_type \o "' not found in document."
         ELSE
         LET sentences == SentencesFrom(strip(text), 1)
             substantive == SelectSeq(sentences, LAMBDA x : CountWords(x) > 8)
         IN  IF Len(substantive) = 0 THEN strip(Excerpt(text))
             ELSE join(" ", Take(substantive, 2))

\* max_words=80 of the two context builders
ContextWords == 80

\* the two context builders from `if not summary` on; extra is the
\* jurisdiction line, if any
ContextOf(summary, clause_type, extra) ==
    IF summary = "" THEN "Clause '" \o clause_type \o "' not found."
    ELSE "Clause type: " \o clause_type \o "\n" \o extra
         \o "Clause summary (anonymized): " \o summary

_exec_check_enforceability_context(clauses, clause_type, jurisdiction) ==
    ContextOf(get_clause_summary(clauses, clause_type, ContextWords), clause_type,
              "Jurisdiction: " \o jurisdiction \o "\n")

_exec_benchmark_context(clauses, clause_type) ==
    ContextOf(get_clause_summary(clauses, clause_type, ContextWords), clause_type, "")

StoreAfterExecute_Emptied(current, clauses) == <<>>

\* `if clauses: ds.CLAUSES = clauses`: the value of ds.CLAUSES that
\* execute_tool works on and leaves behind; an empty dict is false
StoreAfterExecute(current, clauses) == IF Len(clauses) > 0 THEN clauses ELSE current

\* execute_tool: the returned string.  current is ds.CLAUSES at the call,
\* clauses the third argument.
execute_tool(tool_name, arguments, clauses, current) ==
    LET store == StoreAfterExecute(current, clauses) IN
    CASE tool_name = "extract_parties" -> _exec_extract_parties(store)
      [] tool_name = "get_clause_info" ->
            _exec_get_clause_info(store, Get(arguments, "clause_type", ""),
                                  Get(arguments, "field", "definition"))
      [] tool_name = "summarize_clause" ->
            _exec_summarize_clause(store, Get(arguments, "clause_type", ""))
      [] tool_name = "check_enforceability" ->
            _exec_check_enforceability_context(store, Get(arguments, "clause_type", ""),
                                               Get(arguments, "jurisdiction", ""))
      [] tool_name = "benchmark_clause" ->
            _exec_benchmark_context(store, Get(arguments, "clause_type", ""))
      [] OTHER -> "Unknown tool: " \o tool_name

\* word_count
word_count(text) == IF text = "" THEN 0 ELSE CountWords(text)

-----------------------------------------------------------------------------
(* main.py *)

CLOUD_REQUIRED_TOOLS == {"check_enforceability", "benchmark_clause"}

DEVICE_TOOLS == {"extract_parties", "get_clause_info", "summarize_clause"}

\* confidence_threshold=0.72, in hundredths
DefaultThreshold == 72

\* generate_cactus that does not forward the cloud_handoff key
generate_cactus_NoHandoff(raw) ==
    IF ~raw.parsed
    THEN [function_calls |-> <<>>, total_time_ms |-> 0, confidence |-> 0]
    ELSE [function_calls |-> Get(raw.obj, "function_calls", <<>>),
          total_time_ms  |-> Get(raw.obj, "total_time_ms", 0),
          confidence     |-> Get(raw.obj, "confidence", 0)]

\* generate_cactus whose degraded result claims full confidence
generate_cactus_Sure(raw) ==
    IF ~raw.parsed
    THEN [function_calls |-> <<>>, total_time_ms |-> 0, confidence |-> 100]
    ELSE [function_calls |-> Get(raw.obj, "function_calls", <<>>),
          total_time_ms  |-> Get(raw.obj, "total_time_ms", 0),
          confidence     |-> Get(raw.obj, "confidence", 0),
          cloud_handoff  |-> Get(raw.obj, "cloud_handoff", FALSE)]

\* generate_cactus, from json.loads on: raw is [parsed |-> FALSE] when
\* json.loads raises JSONDecodeError, else [parsed |-> TRUE, obj |-> dict]
generate_cactus(raw) ==
    IF ~raw.parsed
    THEN [function_calls |-> <<>>, total_time_ms |-> 0, confidence |-> 0]
    ELSE [function_calls |-> Get(raw.obj, "function_calls", <<>>),
          total_time_ms  |-> Get(raw.obj, "total_time_ms", 0),
          confidence     |-> Get(raw.obj, "confidence", 0),
          cloud_handoff  |-> Get(raw.obj, "cloud_handoff", FALSE)]

\* generate_cloud returns {function_calls, total_time_ms}: no confidence
generate_cloud(resp) ==
    [function_calls |-> resp.function_calls, total_time_ms |-> resp.total_time_ms]

\* escalation that forgets to add the local elapsed time
Escalate_CloudTimeOnly(cloud, local, source) ==
    Put(Put(cloud, "source", source), "local_confidence", local["confidence"])

\* the three statements every escalation branch runs on the cloud dict
Escalate(cloud, local, source) ==
    Put(Put([cloud EXCEPT !["total_time_ms"] = @ + local["total_time_ms"]],
            "source", source),
        "local_confidence", local["confidence"])

\* policy check that lets every tool stay on the device
requires_cloud_Never(tool_calls) == FALSE

\* policy check that looks at the first call only
requires_cloud_First(tool_calls) ==
    Len(tool_calls) > 0 /\ tool_calls[1].name \in CLOUD_REQUIRED_TOOLS

requires_cloud(tool_calls) ==
    \E i \in 1..Len(tool_calls) : tool_calls[i].name \in CLOUD_REQUIRED_TOOLS

\* non-strict comparison
LowConfidence_AtMost(confidence, confidence_threshold) == confidence <= confidence_threshold

LowConfidence(confidence, confidence_threshold) == confidence < confidence_threshold

\* router that tests the confidence before the tool policy
generate_hybrid_ConfidenceFirst(raw, resp, confidence_threshold) ==
    LET local == generate_cactus(raw) IN
    IF GetFlag(local, "cloud_handoff")
    THEN [ret |-> Escalate(generate_cloud(resp), local, "cloud (cactus handoff)"),
          remote |-> 1]
    ELSE IF LowConfidence(local["confidence"], confidence_threshold)
    THEN [ret |-> Escalate(generate_cloud(resp), local, "cloud (low confidence)"),
          remote |-> 1]
    ELSE IF requires_cloud(Get(local, "function_calls", <<>>))
    THEN [ret |-> Escalate(generate_cloud(resp), local, "cloud (legal knowledge required)"),
          remote |-> 1]
    ELSE [ret |-> Put(local, "source", "on-device"), remote |-> 0]

\* generate_hybrid: ret is the returned dict, remote the number of
\* generate_cloud invocations the call made
generate_hybrid(raw, resp, confidence_threshold) ==
    LET local == generate_cactus(raw) IN
    IF GetFlag(local, "cloud_handoff")
    THEN [ret |-> Escalate(generate_cloud(resp), local, "cloud (cactus handoff)"),
          remote |-> 1]
    ELSE IF requires_cloud(Get(local, "function_calls", <<>>))
    THEN [ret |-> Escalate(generate_cloud(resp), local, "cloud (legal knowledge required)"),
          remote |-> 1]
    ELSE IF LowConfidence(local["confidence"], confidence_threshold)
    THEN [ret |-> Escalate(generate_cloud(resp), local, "cloud (low confidence)"),
          remote |-> 1]
    ELSE [ret |-> Put(local, "source", "on-device"), remote |-> 0]

-----------------------------------------------------------------------------
(* Inputs of the router *)

MaxCalls == 2

ToolNames == DEVICE_TOOLS \cup CLOUD_REQUIRED_TOOLS

RouteArgs == [clause_type |-> "term"]

CallLists(names) ==
    UNION {[1..n -> [name : names, arguments : {RouteArgs}]] : n \in 0..MaxCalls}

\* confidences around each threshold, and the ends of the range
Thresholds == {50, DefaultThreshold}

Confidences == {0, 49, 50, 51, 71, 72, 73, 100}

LocalTimes == {0, 5}

CloudTimes == {3}

\* the JSON objects cactus_complete can print: every key may be missing
Optional(k, values) == {EmptyDict} \cup {[x \in {k} |-> v] : v \in values}

RawObjects ==
    { c @@ h @@ f @@ t :
        c \in Optional("confidence", Confidences),
        h \in Optional("cloud_handoff", BOOLEAN),
        f \in Optional("function_calls", CallLists(ToolNames)),
        t \in Optional("total_time_ms", LocalTimes) }

RawOutputs == {[parsed |-> FALSE]} \cup {[parsed |-> TRUE, obj |-> o] : o \in RawObjects}

CloudResponses ==
    {[function_calls |-> f, total_time_ms |-> t] :
        t \in CloudTimes,
        f \in {<<>>,
               <<[name |-> "summarize_clause", arguments |-> RouteArgs]>>,
               <<[name |-> "benchmark_clause", arguments |-> RouteArgs],
                 [name |-> "extract_parties", arguments |-> EmptyDict]>>}}

NoRouting == [ret |-> EmptyDict, remote |-> 0]

-----------------------------------------------------------------------------
(* backend/session.py.  Latencies are whole milliseconds; total_cost_usd   *)
(* counts hundred-thousandths of a dollar, the price of one word.          *)

\* Session(): the dataclass defaults
NewSession ==
    [clauses |-> <<>>, document_loaded |-> FALSE,
     query_count |-> 0, local_count |-> 0, cloud_count |-> 0,
     total_latency_ms |-> 0, total_words_sent_to_cloud |-> 0, total_cost_usd |-> 0]

\* record_query that counts every query as local
record_query_LocalAlways(s, source, latency_ms, words_sent) ==
    [s EXCEPT !.query_count = @ + 1,
              !.total_latency_ms = @ + latency_ms,
              !.local_count = @ + 1]

\* record_query that charges the words of an on-device query too
record_query_AllWords(s, source, latency_ms, words_sent) ==
    LET counted == [s EXCEPT !.query_count = @ + 1,
                             !.total_latency_ms = @ + latency_ms,
                             !.total_words_sent_to_cloud = @ + words_sent,
                             !.total_cost_usd = @ + words_sent]
    IN  IF source = "on-device" THEN [counted EXCEPT !.local_count = @ + 1]
        ELSE [counted EXCEPT !.cloud_count = @ + 1]

record_query(s, source, latency_ms, words_sent) ==
    LET counted == [s EXCEPT !.query_count = @ + 1,
                             !.total_latency_ms = @ + latency_ms]
    IN  IF source = "on-device" THEN [counted EXCEPT !.local_count = @ + 1]
        ELSE [counted EXCEPT !.cloud_count = @ + 1,
                             !.total_words_sent_to_cloud = @ + words_sent,
                             !.total_cost_usd = @ + words_sent]

\* round(n / d): Python rounds a half to the even neighbour
RoundHalfEven(n, d) ==
    LET q == n \div d
        twice == 2 * (n % d)
    IN  IF twice < d THEN q
        ELSE IF twice > d THEN q + 1
        ELSE IF q % 2 = 0 THEN q ELSE q + 1

\* stats(): avg_latency_ms in tenths of a millisecond
stats(s) ==
    [query_count |-> s.query_count,
     local_count |-> s.local_count,
     cloud_count |-> s.cloud_count,
     local_pct |-> IF s.query_count > 0
                   THEN RoundHalfEven(100 * s.local_count, s.query_count) ELSE 0,
     cloud_pct |-> IF s.query_count > 0
                   THEN RoundHalfEven(100 * s.cloud_count, s.query_count) ELSE 0,
     avg_latency_ms |-> IF s.query_count > 0
                        THEN RoundHalfEven(10 * s.total_latency_ms, s.query_count) ELSE 0,
     total_words_sent_to_cloud |-> s.total_words_sent_to_cloud,
     total_cost_usd |-> s.total_cost_usd]

\* reset() that keeps the loaded document
reset_KeepDocument(s) == [NewSession EXCEPT !.clauses = s.clauses,
                                            !.document_loaded = s.document_loaded]

\* reset(): every field back to its default
reset(s) == NewSession

-----------------------------------------------------------------------------
(* backend/app.py *)

DecimalDigits == <<"0", "1", "2", "3", "4", "5", "6", "7", "8", "9">>

\* str(n) of a natural number
RECURSIVE str(_)
str(n) == IF n < 10 THEN DecimalDigits[n + 1]
          ELSE str(n \div 10) \o DecimalDigits[(n % 10) + 1]

\* _gemini_elaborate: what is handed to the model, and the stripped reply
ElaborateCall(context, task_description) ==
    [context |-> context,
     task_description |-> task_description,
     prompt |-> task_description \o "\n\n" \o context]

_gemini_elaborate(reply) == strip(reply)

_format_answer(tool_name, arguments, raw_result) ==
    CASE tool_name = "get_clause_info" ->
           LET clause == Get(arguments, "clause_type", "")
               field == Get(arguments, "field", "")
               named == title(replace(clause, "_", " ")) \o " clause"
               label == IF field # "" THEN title(field) \o " of " \o named ELSE named
           IN  label \o ": " \o raw_result
      [] tool_name = "summarize_clause" ->
           title(replace(Get(arguments, "clause_type", ""), "_", " "))
               \o " Clause Summary: " \o raw_result
      [] OTHER -> raw_result

\* what the elaboration is asked to do, per cloud-required tool
TaskDescription(tool_name, tool_args) ==
    LET clause_type == replace(Get(tool_args, "clause_type", ""), "_", " ") IN
    IF tool_name = "check_enforceability"
    THEN "As a legal expert, assess whether the following " \o clause_type
         \o " clause is legally enforceable in "
         \o Get(tool_args, "jurisdiction", "the specified jurisdiction")
         \o ". Cite relevant laws or precedents if applicable. "
         \o "Be concise (3-4 sentences)."
    ELSE "As a legal expert, assess whether the following " \o clause_type
         \o " clause is standard, unusually broad, or unusually narrow "
         \o "compared to typical NDAs. Be concise (3-4 sentences)."

\* a missing confidence (None)
NoConfidence == 0 - 1

\* routing_result.get("confidence") or routing_result.get("local_confidence")
ResponseConfidence(routing_result) ==
    LET confidence == Get(routing_result, "confidence", NoConfidence) IN
    IF confidence \in {NoConfidence, 0}
    THEN Get(routing_result, "local_confidence", NoConfidence)
    ELSE confidence

NoDocumentLoaded ==
    [status |-> 400, kind |-> "query",
     detail |-> "No document loaded. POST /api/load first."]

EmptyDocument ==
    [status |-> 400, kind |-> "load", detail |-> "Document text cannot be empty."]

\* POST /api/load from `session.clauses = clauses` on
LoadedDocument(s, clauses) ==
    [CLAUSES |-> clauses,
     session |-> [s EXCEPT !.clauses = clauses, !.document_loaded = TRUE],
     response |-> [status |-> 200, kind |-> "load", success |-> TRUE,
                   clauses_found |-> [i \in 1..Len(clauses) |-> clauses[i].key],
                   message |-> "Document loaded successfully. Found "
                               \o str(Len(clauses)) \o " clause(s)."]]

\* POST /api/load on a text that is not blank: ds.CLAUSES, the session and
\* the response
load_document_request(s, current, text) ==
    LoadedDocument(s, load_document(text, current))

\* POST /api/query when the routing result has no tool call
QueryWithoutCall(s, current, query, source, confidence, latency_ms) ==
    [CLAUSES |-> current,
     session |-> record_query(s, source, latency_ms, 0),
     executed |-> <<>>,
     elaborated |-> <<>>,
     response |->
        [status |-> 200, kind |-> "query", query |-> query,
         answer |-> "No tool call was generated for this query. "
                    \o "Please rephrase your question.",
         tool_called |-> "none", tool_arguments |-> EmptyDict,
         source |-> source, confidence |-> confidence,
         latency_ms |-> latency_ms, words_sent_to_cloud |-> 0,
         privacy_note |-> "No data sent to cloud."]]

\* POST /api/query from step 4 on: raw_result is what execute_tool returned,
\* words_sent the words of it that go to Gemini
QueryAfterExecute(s, current, query, source, confidence, tool_name, tool_args, raw_result, words_sent, reply, latency_ms) ==
    LET elaborates == tool_name \in {"check_enforceability", "benchmark_clause"} IN
    [CLAUSES |-> StoreAfterExecute(current, s.clauses),
     session |-> record_query(s, source, latency_ms, words_sent),
     executed |-> <<[tool |-> tool_name, args |-> tool_args,
                     map |-> s.clauses, result |-> raw_result]>>,
     elaborated |-> IF elaborates
                    THEN <<ElaborateCall(raw_result,
                                         TaskDescription(tool_name, tool_args))>>
                    ELSE <<>>,
     response |->
        [status |-> 200, kind |-> "query", query |-> query,
         answer |-> _format_answer(tool_name, tool_args,
                                   IF elaborates THEN _gemini_elaborate(reply)
                                   ELSE raw_result),
         tool_called |-> tool_name, tool_arguments |-> tool_args,
         source |-> source, confidence |-> confidence,
         latency_ms |-> latency_ms, words_sent_to_cloud |-> words_sent,
         privacy_note |->
            IF elaborates
            THEN "Anonymized clause summary (" \o str(words_sent)
                 \o " words) sent to Gemini. "
                 \o "Raw document never left your device."
            ELSE "All processing done on-device. No data sent to cloud."]]

\* words_sent: the words of the tool result, for the two elaborated tools
WordsSent(tool_name, raw_result) ==
    IF tool_name \in {"check_enforceability", "benchmark_clause"}
    THEN word_count(raw_result) ELSE 0

\* POST /api/query from step 3 on, with the first tool call
QueryAfterRouting(s, current, query, source, confidence, tool_name, tool_args, raw_result, reply, latency_ms) ==
    QueryAfterExecute(s, current, query, source, confidence, tool_name, tool_args,
                      raw_result, WordsSent(tool_name, raw_result), reply, latency_ms)

query_document_LastCall(s, current, query, hybrid, reply, latency_ms) ==
    LET routing_result == hybrid.ret
        source == Get(routing_result, "source", "unknown")
        confidence == ResponseConfidence(routing_result)
        tool_calls == Get(routing_result, "function_calls", <<>>)
        tool_call == tool_calls[Len(tool_calls)]
        tool_name == tool_call["name"]
        tool_args == Get(tool_call, "arguments", EmptyDict)
    IN  IF Len(tool_calls) = 0
        THEN QueryWithoutCall(s, current, query, source, confidence, latency_ms)
        ELSE QueryAfterRouting(s, current, query, source, confidence, tool_name,
                               tool_args,
                               execute_tool(tool_name, tool_args, s.clauses, current),
                               reply, latency_ms)

\* POST /api/query with a document loaded, from the routing result on.
\* hybrid is what generate_hybrid gave, reply what Gemini answers if asked.
query_document(s, current, query, hybrid, reply, latency_ms) ==
    LET routing_result == hybrid.ret
        source == Get(routing_result, "source", "unknown")
        confidence == ResponseConfidence(routing_result)
        tool_calls == Get(routing_result, "function_calls", <<>>)
        tool_call == tool_calls[1]
        tool_name == tool_call["name"]
        tool_args == Get(tool_call, "arguments", EmptyDict)
    IN  IF Len(tool_calls) = 0
        THEN QueryWithoutCall(s, current, query, source, confidence, latency_ms)
        ELSE QueryAfterRouting(s, current, query, source, confidence, tool_name,
                               tool_args,
                               execute_tool(tool_name, tool_args, s.clauses, current),
                               reply, latency_ms)

-----------------------------------------------------------------------------
(* Documents: sections joined by divider lines *)

SectionTexts ==
    <<"NDA between Acme Corp, and John Smith, an individual.",
      "1. TERM\nThe Employee serves Acme Corp for twenty-four (24) months.",
      "2. TERMINATION OF CONFIDENTIALITY\nthe Company pays $5,000 in Texas.",
      "3. PAYMENT TERMS\nJohn Smith is paid. No notes.">>

Divider == "\n---\n"

FullDocument == join(Divider, SectionTexts)

\* the texts a load request may carry: a blank one, one without any clause,
\* one clause, every section
Documents == {"", "Notes only.", SectionTexts[2], FullDocument}

-----------------------------------------------------------------------------
(* Inputs of execute_tool *)

ExecToolNames == ToolNames \cup {"delete_clause"}

ClauseTypes == {"", "term", "Termination ", "payment terms", "duration", "notes_n"}

Fields == {"", "duration", "scope", "amount", "parties", "definition", "summary"}

Jurisdictions == {"Texas"}

\* the arguments a call of the tool may carry: each parameter of the tool's
\* schema present or missing
ArgumentsOf(tool_name) ==
    LET types == Optional("clause_type", ClauseTypes) IN
    CASE tool_name = "get_clause_info" ->
           {c @@ f : c \in types, f \in Optional("field", Fields)}
      [] tool_name = "check_enforceability" ->
           {c @@ j : c \in types, j \in Optional("jurisdiction", Jurisdictions)}
      [] tool_name \in {"summarize_clause", "benchmark_clause"} -> types
      [] OTHER -> {EmptyDict, [clause_type |-> "term"]}

RECURSIVE Repeat(_, _)
Repeat(s, n) == IF n = 0 THEN "" ELSE s \o Repeat(s, n - 1)

\* a clause of more than 300 characters whose sentences are all short; its
\* 300th character is a space
LongDocument == "14. NOTES\n" \o Repeat("No notes. ", 31) \o "End."

\* a clause whose heading is a key of the alias table
DurationDocument ==
    "1. DURATION. This agreement lasts for two years from the signing date of it."

\* clause maps handed to execute_tool: none, two segmented documents, and a
\* map no document gives
ExecMaps ==
    {<<>>,
     load_document(FullDocument, <<>>),
     load_document(DurationDocument \o Divider \o LongDocument, <<>>),
     <<[key |-> "term", text |-> " "], [key |-> "", text |-> "Notes."]>>}

\* what ds.CLAUSES may hold from an earlier load
EarlierMaps == {load_document(SectionTexts[3], <<>>), load_document(FullDocument, <<>>)}

NotCalled == "<not called>"

-----------------------------------------------------------------------------
(* The states before any call *)

\* generate_cloud not called
NoCloudResponse == [function_calls |-> <<>>, total_time_ms |-> 0]

IdleRoute ==
    /\ raw_str = [parsed |-> FALSE]
    /\ cloud_resp = NoCloudResponse
    /\ threshold = DefaultThreshold
    /\ routing = NoRouting

\* no execute_tool call in this request
NoExecution ==
    /\ ex_tool = "none"
    /\ ex_args = EmptyDict
    /\ ex_map = <<>>
    /\ ex_result = NotCalled

IdleExec == CLAUSES = <<>> /\ NoExecution

NoResponse == [status |-> 0, kind |-> "none"]

\* no direct call of document_store
NoStoreCall == [fn |-> "none"]

IdleApp ==
    /\ session = NewSession
    /\ loaded_text = ""
    /\ elaborated = <<>>
    /\ response = NoResponse
    /\ ds_call = NoStoreCall

-----------------------------------------------------------------------------
(* Specification of the router alone: the inputs of one generate_hybrid    *)
(* call are drawn at the start, Route makes the call                       *)

InitRoute ==
    /\ raw_str \in RawOutputs
    /\ cloud_resp \in CloudResponses
    /\ threshold \in Thresholds
    /\ routing = NoRouting
    /\ IdleExec
    /\ IdleApp

Route ==
    /\ routing = NoRouting
    /\ routing' = generate_hybrid(raw_str, cloud_resp, threshold)
    /\ UNCHANGED <<raw_str, cloud_resp, threshold>>
    /\ UNCHANGED execVars
    /\ UNCHANGED appVars
    /\ UNCHANGED storeVars

NextRoute == Route

SpecRoute == InitRoute /\ [][NextRoute]_vars

-----------------------------------------------------------------------------
(* Specification of the dispatcher alone: the arguments of one execute_tool *)
(* call are drawn at the start; ds.load_document may run before the call    *)

InitExec ==
    /\ IdleRoute
    /\ IdleApp
    /\ CLAUSES = <<>>
    /\ ex_tool \in ExecToolNames
    /\ ex_args \in ArgumentsOf(ex_tool)
    /\ ex_map \in ExecMaps
    /\ ex_result = NotCalled

\* document_store.load_document(text)
DsLoad ==
    /\ ex_result = NotCalled
    /\ CLAUSES = <<>>
    /\ CLAUSES' \in EarlierMaps
    /\ UNCHANGED <<ex_tool, ex_args, ex_map, ex_result>>
    /\ UNCHANGED routeVars
    /\ UNCHANGED appVars
    /\ UNCHANGED storeVars

\* nda_tools.execute_tool(ex_tool, ex_args, ex_map)
Execute ==
    /\ ex_result = NotCalled
    /\ ex_result' = execute_tool(ex_tool, ex_args, ex_map, CLAUSES)
    /\ CLAUSES' = StoreAfterExecute(CLAUSES, ex_map)
    /\ UNCHANGED <<ex_tool, ex_args, ex_map>>
    /\ UNCHANGED routeVars
    /\ UNCHANGED appVars
    /\ UNCHANGED storeVars

NextExec == DsLoad \/ Execute

SpecExec == InitExec /\ [][NextExec]_vars

-----------------------------------------------------------------------------
(* Inputs of the HTTP handlers *)

MaxQueries == 2

Queries == {"How long does the term last?"}

\* the tool calls a model may answer a query with
AppCalls ==
    <<[name |-> "extract_parties", arguments |-> EmptyDict],
      [name |-> "get_clause_info",
       arguments |-> [clause_type |-> "term", field |-> "duration"]],
      [name |-> "summarize_clause", arguments |-> [clause_type |-> "term"]],
      [name |-> "check_enforceability",
       arguments |-> [clause_type |-> "term", jurisdiction |-> "Texas"]],
      [name |-> "benchmark_clause",
       arguments |-> [clause_type |-> "termination of confidentiality"]],
      [name |-> "benchmark_clause"]>>

\* the call lists the on-device model may give
AppCallLists ==
    {<<>>, <<AppCalls[1]>>, <<AppCalls[2]>>, <<AppCalls[3]>>, <<AppCalls[4]>>,
     <<AppCalls[3], AppCalls[1]>>}

\* what cactus_complete may print: not JSON, a confident answer, an unsure
\* one, one that asks for the cloud
AppRawOutputs ==
    {[parsed |-> FALSE]}
    \cup {[parsed |-> TRUE,
           obj |-> [function_calls |-> f, confidence |-> 90, total_time_ms |-> 5]] :
              f \in AppCallLists}
    \cup {[parsed |-> TRUE,
           obj |-> [function_calls |-> <<AppCalls[2]>>, confidence |-> 50,
                    total_time_ms |-> 5]],
          [parsed |-> TRUE,
           obj |-> [function_calls |-> <<AppCalls[3]>>, confidence |-> 90,
                    total_time_ms |-> 5, cloud_handoff |-> TRUE]]}

\* what the cloud model may give
AppCloudResponses ==
    {NoCloudResponse,
     [function_calls |-> <<AppCalls[6]>>, total_time_ms |-> 3],
     [function_calls |-> <<AppCalls[5], AppCalls[2]>>, total_time_ms |-> 3],
     [function_calls |-> <<AppCalls[2], AppCalls[4]>>, total_time_ms |-> 3]}

GeminiReplies == {" Likely enforceable.\n"}

Latencies == {3}

-----------------------------------------------------------------------------
(* Specification of the service: load, query, stats and reset requests in  *)
(* any order                                                               *)

Init ==
    /\ IdleRoute
    /\ IdleExec
    /\ IdleApp

\* a request that calls neither generate_hybrid, execute_tool nor Gemini
NoCalls ==
    /\ raw_str' = [parsed |-> FALSE]
    /\ cloud_resp' = NoCloudResponse
    /\ threshold' = DefaultThreshold
    /\ routing' = NoRouting
    /\ ex_tool' = "none"
    /\ ex_args' = EmptyDict
    /\ ex_map' = <<>>
    /\ ex_result' = NotCalled
    /\ elaborated' = <<>>
    /\ UNCHANGED storeVars

\* POST /api/load
Load ==
    \E text \in Documents :
        /\ NoCalls
        /\ IF strip(text) = ""
           THEN /\ response' = EmptyDocument
                /\ UNCHANGED <<CLAUSES, session, loaded_text>>
           ELSE \E done \in {load_document_request(session, CLAUSES, text)} :
                /\ CLAUSES' = done.CLAUSES
                /\ session' = done.session
                /\ response' = done.response
                /\ loaded_text' = text

\* POST /api/query before a load
QueryRejected ==
    /\ ~session.document_loaded
    /\ NoCalls
    /\ response' = NoDocumentLoaded
    /\ UNCHANGED <<CLAUSES, session, loaded_text>>

\* POST /api/query with a document loaded
Query ==
    /\ session.document_loaded
    /\ session.query_count < MaxQueries
    /\ \E query \in Queries, raw \in AppRawOutputs, resp \in AppCloudResponses,
          reply \in GeminiReplies, latency_ms \in Latencies :
       \E hybrid \in {generate_hybrid(raw, resp, DefaultThreshold)} :
          /\ hybrid.remote = 0 => resp = NoCloudResponse
          /\ \E done \in {query_document(session, CLAUSES, query, hybrid,
                                         reply, latency_ms)} :
                 /\ raw_str' = raw
                 /\ cloud_resp' = resp
                 /\ threshold' = DefaultThreshold
                 /\ routing' = hybrid
                 /\ CLAUSES' = done.CLAUSES
                 /\ session' = done.session
                 /\ elaborated' = done.elaborated
                 /\ response' = done.response
                 /\ ex_tool' = IF done.executed = <<>> THEN "none"
                               ELSE done.executed[1].tool
                 /\ ex_args' = IF done.executed = <<>> THEN EmptyDict
                               ELSE done.executed[1].args
                 /\ ex_map' = IF done.executed = <<>> THEN <<>>
                              ELSE done.executed[1].map
                 /\ ex_result' = IF done.executed = <<>> THEN NotCalled
                                 ELSE done.executed[1].result
          /\ UNCHANGED loaded_text
          /\ UNCHANGED storeVars

\* GET /api/stats
Stats ==
    /\ NoCalls
    /\ response' = [status |-> 200, kind |-> "stats", body |-> stats(session)]
    /\ UNCHANGED <<CLAUSES, session, loaded_text>>

\* POST /api/reset
Reset ==
    /\ NoCalls
    /\ session' = reset(session)
    /\ response' = [status |-> 200, kind |-> "reset", success |-> TRUE,
                    message |-> "Session reset."]
    /\ UNCHANGED <<CLAUSES, loaded_text>>

Next == Load \/ QueryRejected \/ Query \/ Stats \/ Reset

Spec == Init /\ [][Next]_vars

-----------------------------------------------------------------------------
(* Specification of the clause store alone: one text is loaded, then one   *)
(* lookup function of document_store.py is called                          *)

MaxWords == 6

\* the texts loaded: every section; no clause at all; names that only a
\* numbered clause states; a heading that is also an alias; a long clause
\* headings that match two patterns, and one that matches none
HeadingsDocument ==
    "1. CONFIDENTIALITY AFTER TERMINATION\nkept secret." \o Divider
    \o "2. JURISDICTION ON TERMINATION\nin Texas courts." \o Divider
    \o "3. FEES & COSTS (ALL)\npaid yearly." \o Divider
    \o "4. WORK PRODUCT, NON-COMPETE\nnone."

StoreTexts ==
    {FullDocument,
     HeadingsDocument,
     "Notes only.",
     "1. TERM\nJohn Smith, an individual, serves Acme Corp for six months.",
     DurationDocument,
     LongDocument}

\* the clause names asked for: every key of the map, and names that are
\* aliases, padded or capitalised
ClauseNames(clauses) == Keys(clauses) \cup {"Term ", "termination", "nda"}

StoreFields == Fields \cup {" Duration", "colour"}

AliasKeys == {_CLAUSE_ALIASES[i].key : i \in 1..Len(_CLAUSE_ALIASES)}

AliasValues == {_CLAUSE_ALIASES[i].text : i \in 1..Len(_CLAUSE_ALIASES)}

\* a name as a caller may write it: as is, capitalised, padded
Spellings(name) == {name, title(name), " " \o name \o "\n", "\n" \o title(name) \o "  "}

ResolveNames ==
    UNION {Spellings(name) : name \in AliasKeys \cup AliasValues \cup {"my-own clause"}}

InitStore ==
    /\ IdleRoute
    /\ IdleExec
    /\ IdleApp

\* document_store.load_document(text), once
StoreLoad ==
    /\ ds_call = NoStoreCall
    /\ loaded_text = ""
    /\ \E text \in StoreTexts :
          /\ CLAUSES' = load_document(text, CLAUSES)
          /\ loaded_text' = text
    /\ UNCHANGED <<ex_tool, ex_args, ex_map, ex_result>>
    /\ UNCHANGED routeVars
    /\ UNCHANGED <<session, elaborated, response, ds_call>>

\* the variables no lookup changes
LookupFrame ==
    /\ UNCHANGED execVars
    /\ UNCHANGED routeVars
    /\ UNCHANGED appVars

\* document_store.get_clause_summary(clause_name, max_words)
Summarize ==
    /\ ds_call = NoStoreCall
    /\ \E clause_name \in ClauseNames(CLAUSES), max_words \in 1..MaxWords :
          ds_call' = [fn |-> "get_clause_summary", clause_name |-> clause_name,
                      max_words |-> max_words,
                      result |-> get_clause_summary(CLAUSES, clause_name, max_words)]
    /\ LookupFrame

\* document_store.get_field_from_clause(clause_name, field)
GetField ==
    /\ ds_call = NoStoreCall
    /\ \E clause_name \in ClauseNames(CLAUSES), field \in StoreFields :
          ds_call' = [fn |-> "get_field_from_clause", clause_name |-> clause_name,
                      field |-> field,
                      result |-> get_field_from_clause(CLAUSES, clause_name, field)]
    /\ LookupFrame

\* document_store._normalize_clause_name(clause_name)
Resolve ==
    /\ ds_call = NoStoreCall
    /\ \E clause_name \in ResolveNames :
          ds_call' = [fn |-> "_normalize_clause_name", clause_name |-> clause_name,
                      result |-> _normalize_clause_name(clause_name)]
    /\ LookupFrame

NextStore == StoreLoad \/ Summarize \/ GetField \/ Resolve

SpecStore == InitStore /\ [][NextStore]_vars

-----------------------------------------------------------------------------
(* Claims about the router, under SpecRoute *)

Routed == routing # NoRouting

\* what the local engine printed, read key by key
RawHandoff == raw_str.parsed /\ GetFlag(raw_str.obj, "cloud_handoff")

RawCalls == IF raw_str.parsed THEN Get(raw_str.obj, "function_calls", <<>>) ELSE <<>>

RawConfidence == IF raw_str.parsed THEN Get(raw_str.obj, "confidence", 0) ELSE 0

RawTime == IF raw_str.parsed THEN Get(raw_str.obj, "total_time_ms", 0) ELSE 0

RawNamesCloudTool ==
    \E i \in 1..Len(RawCalls) :
        RawCalls[i].name \in {"check_enforceability", "benchmark_clause"}

Escalated == routing.remote = 1 /\ routing.ret["source"] # "on-device"

\* C1: a local result whose handoff flag is set is escalated whatever its
\* confidence and tool calls: the remote engine is invoked exactly once and
\* the result carries the remote engine's function calls.
C1_HandoffEscalates ==
    (Routed /\ RawHandoff) =>
        /\ routing.remote = 1
        /\ routing.ret["function_calls"] = cloud_resp.function_calls
        /\ routing.ret["source"] # "on-device"

C1_Witness ==
    /\ Routed /\ RawHandoff /\ RawConfidence = 100
    /\ RawCalls = <<[name |-> "extract_parties", arguments |-> RouteArgs]>>
    /\ cloud_resp.function_calls # RawCalls
    /\ routing.remote = 1

\* C2: with no handoff flag, a cloud-required tool named by any one of the
\* local calls (not only the first) forces escalation, even at confidence 1.0.
C2_CloudToolEscalates ==
    (Routed /\ ~RawHandoff /\ RawNamesCloudTool) => Escalated

C2_Witness ==
    /\ Routed /\ ~RawHandoff /\ RawConfidence = 100
    /\ Len(RawCalls) = 2
    /\ RawCalls[1].name = "get_clause_info"
    /\ RawCalls[2].name = "benchmark_clause"
    /\ Escalated

\* C3: with no handoff flag and no cloud-required tool, a confidence equal to
\* the threshold is accepted on-device without any remote invocation, and a
\* confidence strictly below the threshold is escalated, for every threshold.
C3_StrictThreshold ==
    (Routed /\ ~RawHandoff /\ ~RawNamesCloudTool) =>
        /\ RawConfidence = threshold =>
              routing.remote = 0 /\ routing.ret["source"] = "on-device"
        /\ RawConfidence < threshold => Escalated
        /\ RawConfidence > threshold =>
              routing.remote = 0 /\ routing.ret["source"] = "on-device"

C3_Witness ==
    /\ Routed /\ ~RawHandoff /\ ~RawNamesCloudTool
    /\ threshold = DefaultThreshold /\ RawConfidence = threshold
    /\ Len(RawCalls) = 1
    /\ routing.remote = 0 /\ routing.ret["source"] = "on-device"

\* the label of the first applicable rule, given the four labels
FirstRuleLabel(handoff, tool, low, device) ==
    IF RawHandoff THEN handoff
    ELSE IF RawNamesCloudTool THEN tool
    ELSE IF RawConfidence < threshold THEN low
    ELSE device

\* C4 as stated: the result's label is that of the first applicable rule among
\* "cloud (handoff)", "cloud (external-knowledge required)",
\* "cloud (low-confidence)" and "on-device".
C4_SpecLabels ==
    Routed =>
        /\ "source" \in DOMAIN routing.ret
        /\ routing.ret["source"] =
              FirstRuleLabel("cloud (handoff)", "cloud (external-knowledge required)",
                             "cloud (low-confidence)", "on-device")

\* C4 amended: the result carries exactly one label, that of the first
\* applicable rule in the order handoff, cloud-required tool, low confidence,
\* accept, the labels being "cloud (cactus handoff)",
\* "cloud (legal knowledge required)", "cloud (low confidence)", "on-device".
C4_FirstRuleLabel ==
    Routed =>
        /\ "source" \in DOMAIN routing.ret
        /\ routing.ret["source"] =
              FirstRuleLabel("cloud (cactus handoff)", "cloud (legal knowledge required)",
                             "cloud (low confidence)", "on-device")

C4_Witness ==
    /\ Routed /\ ~RawHandoff /\ RawNamesCloudTool /\ RawConfidence < threshold
    /\ routing.ret["source"] = "cloud (legal knowledge required)"

\* C5: on every escalation path the function calls are exactly the remote
\* engine's, the elapsed time is the local plus the remote elapsed time, and
\* local_confidence is the local result's confidence.
C5_EscalationResult ==
    (Routed /\ routing.remote > 0) =>
        /\ routing.ret["function_calls"] = cloud_resp.function_calls
        /\ routing.ret["total_time_ms"] = RawTime + cloud_resp.total_time_ms
        /\ "local_confidence" \in DOMAIN routing.ret
        /\ routing.ret["local_confidence"] = RawConfidence
        /\ "confidence" \notin DOMAIN routing.ret

C5_Witness ==
    /\ Routed /\ routing.remote = 1
    /\ routing.ret["source"] = "cloud (low confidence)"
    /\ RawTime = 5 /\ RawConfidence = 71
    /\ Len(RawCalls) = 2 /\ Len(cloud_resp.function_calls) = 1
    /\ routing.ret["total_time_ms"] = 8

\* C6: unparseable local output degrades to confidence 0, no function calls and
\* no handoff flag; with the default threshold the router then escalates by
\* the low-confidence rule, invoking the remote engine exactly once.
C6_MalformedEscalates ==
    ~raw_str.parsed =>
        /\ generate_cactus(raw_str)["confidence"] = 0
        /\ generate_cactus(raw_str)["function_calls"] = <<>>
        /\ ~GetFlag(generate_cactus(raw_str), "cloud_handoff")
        /\ (Routed /\ threshold = DefaultThreshold) =>
              /\ routing.remote = 1
              /\ routing.ret["source"] = "cloud (low confidence)"
              /\ routing.ret["function_calls"] = cloud_resp.function_calls

C6_Witness ==
    /\ ~raw_str.parsed /\ Routed /\ threshold = DefaultThreshold
    /\ routing.remote = 1
    /\ routing.ret["local_confidence"] = 0

-----------------------------------------------------------------------------
(* Claims about the dispatcher, checked under SpecExec *)

Executed == ex_result # NotCalled

\* the `required` list of each tool's schema
RequiredArguments(tool_name) ==
    CASE tool_name \in {"get_clause_info", "summarize_clause", "benchmark_clause"} ->
           {"clause_type"}
      [] tool_name = "check_enforceability" -> {"clause_type", "jurisdiction"}
      [] OTHER -> {}

MissingArguments == RequiredArguments(ex_tool) \ DOMAIN ex_args

ClauseTypeTools ==
    {"get_clause_info", "summarize_clause", "check_enforceability", "benchmark_clause"}

\* the clause name the call supplies
SuppliedName == Get(ex_args, "clause_type", "")

MissingArgumentMessage(arg) == "Error: " \o arg \o " is required."

ClauseNotFoundMessage(name) == "Clause '" \o name \o "' not found in document."

\* C7: execute_tool is total: for every tool name, in the catalog or not,
\* every string-to-string argument mapping (empty and incomplete ones too)
\* and every clause map (the empty one too) the call returns a string: it
\* neither raises nor returns None.
C7_ExecuteTotal ==
    Executed => /\ ex_result \notin {None, AttributeError}
                /\ Len(ex_result) >= 0

\* a call outside the catalog, and a lookup of a clause the map lacks with
\* the empty map, both answered
C7_Witness ==
    /\ Executed
    /\ ex_map = <<>>
    /\ \/ ex_tool \notin ToolNames /\ ex_args = EmptyDict
       \/ /\ ex_tool = "summarize_clause"
          /\ SuppliedName = "term"
          /\ get_clause(CLAUSES, "term") = None

\* C8: a call of a catalog tool that lacks one of its required arguments
\* returns "Error: <arg> is required." naming a missing argument, not a
\* clause-not-found message and not a context string.
C8_MissingArgumentError ==
    (Executed /\ MissingArguments # {})
        => \E arg \in MissingArguments : ex_result = MissingArgumentMessage(arg)

\* C9: when the supplied clause name resolves to a key with no entry in the
\* current clause map, get_field_from_clause and every tool that takes
\* clause_type return "Clause '<name>' not found in document." with the
\* name as supplied.
C9_ClauseNotFoundMessage ==
    (/\ Executed
     /\ ex_tool \in ClauseTypeTools
     /\ SuppliedName # ""
     /\ get_clause(CLAUSES, SuppliedName) = None)
        => /\ ex_result = ClauseNotFoundMessage(SuppliedName)
           /\ \A field \in Fields :
                 get_field_from_clause(CLAUSES, SuppliedName, field)
                     = ClauseNotFoundMessage(SuppliedName)

\* the sentences of a clause that have more than 8 words
Substantive(text) ==
    SelectSeq(SentencesFrom(strip(text), 1), LAMBDA x : CountWords(x) > 8)

\* what summarize_clause is to return for the text of a clause
TwoSentencesOf(text) ==
    IF Substantive(text) = <<>> THEN Excerpt(text)
    ELSE join(" ", Take(Substantive(text), 2))

\* C17: for every clause present in the map, summarize_clause returns the
\* first two sentences of the clause that have more than 8 words, joined by
\* one space (one sentence if only one has), and only when no sentence has
\* more than 8 words the first 300 characters of the clause
C17_SummarizeTwoSentences ==
    (/\ Executed
     /\ ex_tool = "summarize_clause"
     /\ SuppliedName # ""
     /\ SuppliedName \in Keys(ex_map))
        => ex_result = TwoSentencesOf(DictGet(ex_map, SuppliedName, None))

\* the same for keys that lookup resolves to themselves and clauses whose
\* excerpt neither starts nor ends with whitespace
C17_WhenKeyResolves ==
    (/\ Executed
     /\ ex_tool = "summarize_clause"
     /\ SuppliedName # ""
     /\ SuppliedName \in Keys(ex_map)
     /\ _normalize_clause_name(SuppliedName) = SuppliedName
     /\ strip(Excerpt(DictGet(ex_map, SuppliedName, None)))
           = Excerpt(DictGet(ex_map, SuppliedName, None)))
        => ex_result = TwoSentencesOf(DictGet(ex_map, SuppliedName, None))

\* C19: execute_tool evaluates the tool against the map passed to it, the
\* empty map included: the result is what a fresh process gives for the same
\* three arguments, whatever an earlier load left in the store
C19_PassedMapOnly ==
    Executed => ex_result = execute_tool(ex_tool, ex_args, ex_map, <<>>)

-----------------------------------------------------------------------------
(* Claims about the service, checked under Spec *)

\* C10: after any sequence of loads, with queries in between, the clause
\* map (the session's and the store's) is the segmentation of the text
\* loaded last and of nothing else: no key or text of an earlier load is
\* left, and loading a text again gives the map of loading it once.
C10_MapOfLastLoad ==
    session.document_loaded
        => /\ session.clauses = load_document(loaded_text, <<>>)
           /\ CLAUSES = session.clauses

\* a load answered after a query was answered: the second load at least,
\* onto a map a query has worked on
C10_Witness ==
    /\ response.kind = "load"
    /\ response.status = 200
    /\ session.query_count > 0
    /\ session.clauses # <<>>

EndsWith(s, p) == Len(p) <= Len(s) /\ SubSeq(s, Len(s) - Len(p) + 1, Len(s)) = p

\* a string with which the dispatcher reports that it could not do the call
FailureString(s) ==
    \/ StartsWithAt(s, 1, "Error: ")
    \/ StartsWithAt(s, 1, "Clause '") /\ EndsWith(s, "' not found.")
    \/ StartsWithAt(s, 1, "Clause '") /\ EndsWith(s, "' not found in document.")
    \/ StartsWithAt(s, 1, "Unknown tool: ")

\* a context made of the clause type and the anonymized summary of the clause
ContextString(s, clause_type, clauses) ==
    /\ StartsWithAt(s, 1, "Clause type: " \o clause_type \o "\n")
    /\ get_clause_summary(clauses, clause_type, ContextWords) # ""
    /\ EndsWith(s, "Clause summary (anonymized): "
                   \o get_clause_summary(clauses, clause_type, ContextWords))

\* C13: the text handed to the elaboration engine is a context string that the
\* dispatcher made for check_enforceability or benchmark_clause out of the
\* clause type and the anonymized summary; the engine is never called for a
\* device tool and never with a failure string of the dispatcher
C13_ElaboratesContextOnly ==
    \A i \in 1..Len(elaborated) :
        /\ ex_tool \in CLOUD_REQUIRED_TOOLS
        /\ elaborated[i].context = ex_result
        /\ ~FailureString(elaborated[i].context)
        /\ ContextString(elaborated[i].context, SuppliedName, ex_map)

\* the request of this step reached generate_hybrid, execute_tool or Gemini
ReachedEngine ==
    routing' # NoRouting \/ ex_result' # NotCalled \/ elaborated' # <<>>

\* C14: a query reaches routing, tool dispatch or an external engine only if a
\* load has succeeded since the start and since the last reset (the flag is
\* set only by a load answered 200 and cleared by every reset); a query
\* arriving otherwise is rejected with no call and the statistics unchanged
C14_QueryNeedsLoad ==
    [][/\ response'.kind = "reset" => ~session'.document_loaded
       /\ (~session.document_loaded /\ session'.document_loaded)
             => (response'.kind = "load" /\ response'.status = 200)
       /\ ReachedEngine => (session.document_loaded /\ response'.kind = "query")
       /\ (response'.kind = "query" /\ ~session.document_loaded)
             => (response' = NoDocumentLoaded /\ ~ReachedEngine /\ session' = session)
      ]_vars

\* a query rejected after a load and a reset
C14_Witness ==
    /\ response = NoDocumentLoaded
    /\ loaded_text # ""
    /\ ~session.document_loaded
    /\ routing = NoRouting /\ ex_result = NotCalled /\ elaborated = <<>>

\* the tool calls of the routing result of the last query
RoutedCalls == Get(routing.ret, "function_calls", <<>>)

\* C18: of a routing result, local or remote, the query handler executes the
\* first tool call and no other; later calls are not executed and cause no
\* elaboration, and a result with no call executes no tool
C18_FirstCallOnly ==
    Routed =>
        IF RoutedCalls = <<>>
        THEN ex_tool = "none" /\ ex_result = NotCalled /\ elaborated = <<>>
        ELSE /\ ex_tool = RoutedCalls[1]["name"]
             /\ ex_args = Get(RoutedCalls[1], "arguments", EmptyDict)
             /\ ex_result # NotCalled
             /\ response.tool_called = ex_tool
             /\ response.tool_arguments = ex_args
             /\ Len(elaborated) <= 1
             /\ elaborated # <<>> =>
                   /\ RoutedCalls[1]["name"] \in CLOUD_REQUIRED_TOOLS
                   /\ elaborated[1].context = ex_result

\* a remote result of a device call followed by a cloud-required call: the
\* first was executed, nothing was elaborated
C18_Witness ==
    /\ Routed
    /\ routing.remote = 1
    /\ Len(RoutedCalls) = 2
    /\ RoutedCalls[1]["name"] = "get_clause_info"
    /\ RoutedCalls[2]["name"] = "check_enforceability"
    /\ ex_tool = "get_clause_info"
    /\ elaborated = <<>>

\* C20: a query against a loaded document only reads the clause map: the
\* keys and texts of the map, in the session and in the store, and the
\* document-loaded flag are after the query what they were before it; only
\* the statistics of the session change
C20_QueryOnlyReads ==
    [][response'.kind = "query"
          => /\ session'.clauses = session.clauses
             /\ session'.document_loaded = session.document_loaded
             /\ CLAUSES' = CLAUSES
             /\ loaded_text' = loaded_text
      ]_vars

\* a query that executed a tool on a document with clauses and was counted
C20_Witness ==
    /\ response.kind = "query"
    /\ response.status = 200
    /\ ex_result # NotCalled
    /\ session.document_loaded
    /\ session.clauses # <<>>
    /\ CLAUSES = session.clauses
    /\ session.query_count = MaxQueries

\* the step is a query that was answered
Answered == response'.kind = "query" /\ response'.status = 200

\* C22: when the provenance of a query is "on-device" no external engine was
\* contacted for it: generate_cloud was not invoked, Gemini was not asked to
\* elaborate, the words_sent_to_cloud reported is 0 and the session's total
\* of words sent to cloud is what it was before the query
C22_OnDeviceStaysLocal ==
    [][(Answered /\ response'.source = "on-device")
          => /\ routing'.remote = 0
             /\ elaborated' = <<>>
             /\ response'.words_sent_to_cloud = 0
             /\ session'.total_words_sent_to_cloud = session.total_words_sent_to_cloud
             /\ session'.total_cost_usd = session.total_cost_usd
      ]_vars

\* an on-device query answered after a query that sent words to the cloud
C22_Witness ==
    /\ response.kind = "query"
    /\ response.status = 200
    /\ response.source = "on-device"
    /\ ex_tool \in DEVICE_TOOLS
    /\ routing.remote = 0
    /\ response.words_sent_to_cloud = 0
    /\ session.total_words_sent_to_cloud > 0
    /\ session.local_count = 1

OnDeviceNote == "All processing done on-device. No data sent to cloud."

\* C23: the response of a query carries the note "All processing done
\* on-device. No data sent to cloud." only when no external engine was
\* contacted for the query; a query that was escalated to the remote engine
\* (provenance other than "on-device") does not carry it
C23_NoteOnlyWhenLocal ==
    (response.kind = "query" /\ response.status = 200)
        => /\ response.privacy_note = OnDeviceNote
                 => (routing.remote = 0 /\ elaborated = <<>>)
           /\ response.source # "on-device"
                 => response.privacy_note # OnDeviceNote

\* the counters of a session
Counters(s) ==
    <<s.query_count, s.local_count, s.cloud_count, s.total_latency_ms,
      s.total_words_sent_to_cloud, s.total_cost_usd>>

\* C24: after any sequence of load, query, stats and reset requests,
\* query_count = local_count + cloud_count; every completed query adds one to
\* query_count and one to local_count if its provenance is "on-device", to
\* cloud_count otherwise; a reset sets every counter to zero and clears the
\* document-loaded flag; no other request changes a counter
C24_CountersAddUp ==
    /\ [](session.query_count = session.local_count + session.cloud_count)
    /\ [][/\ Answered =>
               /\ session'.query_count = session.query_count + 1
               /\ IF response'.source = "on-device"
                  THEN /\ session'.local_count = session.local_count + 1
                       /\ session'.cloud_count = session.cloud_count
                  ELSE /\ session'.cloud_count = session.cloud_count + 1
                       /\ session'.local_count = session.local_count
          /\ response'.kind = "reset" =>
               /\ Counters(session') = <<0, 0, 0, 0, 0, 0>>
               /\ ~session'.document_loaded
          /\ (~Answered /\ response'.kind # "reset") =>
               Counters(session') = Counters(session)
         ]_vars

\* a local and an escalated query were completed
C24_Witness ==
    /\ response.kind = "query"
    /\ response.status = 200
    /\ response.source # "on-device"
    /\ session.query_count = 2
    /\ session.local_count = 1
    /\ session.cloud_count = 1

-----------------------------------------------------------------------------
(* Claims about the clause store, checked under SpecStore *)

Summarized == ds_call.fn = "get_clause_summary"

\* the strings extract_parties detects in the loaded document
DetectedParties == {extract_parties(CLAUSES)[i].text : i \in 1..Len(extract_parties(CLAUSES))}

\* C11: when extract_parties detects a company or an individual in the loaded
\* document, the summary of every clause of the document contains neither
\* detected string
C11_SummaryHidesParties ==
    (Summarized /\ ds_call.clause_name \in Keys(CLAUSES))
        => \A party \in DetectedParties : ~Contains(ds_call.result, party)

\* the text of the clause stored under a key of the map
ClauseOf(key) == DictGet(CLAUSES, key, None)

\* the redacted text of that clause: body lines, party names replaced
RedactedOf(key) == strip(_strip_party_names(CLAUSES, BodyText(ClauseOf(key))))

IsPrefix(r, s) == Len(r) <= Len(s) /\ SubSeq(s, 1, Len(r)) = r

EndsSentence(r) == r # "" /\ At(r, Len(r)) \in {".", "!", "?"}

\* what the summary of a redacted text with its words cut at max_words is to be
SummaryAsStated(r, redacted, max_words) ==
    /\ CountWords(r) <= max_words
    /\ IF CountWords(redacted) <= max_words THEN r = redacted
       ELSE LET prefix == join(" ", Take(split(redacted), max_words))
            IN  \/ IsPrefix(r, prefix) /\ EndsSentence(r)
                \/ r = prefix \o "..."

\* C12: for every clause present in the map and every max_words >= 1 the
\* summary has at most max_words words; it is the whole redacted text when
\* that is short enough, otherwise a prefix of its first max_words words that
\* ends at a sentence end, or those words with an ellipsis appended
C12_SummaryWithinWords ==
    (Summarized /\ ds_call.clause_name \in Keys(CLAUSES))
        => SummaryAsStated(ds_call.result, RedactedOf(ds_call.clause_name),
                           ds_call.max_words)

\* the same for the keys that lookup resolves to themselves
C12_WhenKeyResolves ==
    (/\ Summarized
     /\ ds_call.clause_name \in Keys(CLAUSES)
     /\ _normalize_clause_name(ds_call.clause_name) = ds_call.clause_name)
        => SummaryAsStated(ds_call.result, RedactedOf(ds_call.clause_name),
                           ds_call.max_words)

Resolved == ds_call.fn = "_normalize_clause_name"

\* C15: a key of the alias table resolves to what its canonical key resolves
\* to, and every canonical key resolves to itself, so that resolving twice is
\* resolving once; letter case and surrounding whitespace make no difference
C15_AliasResolution ==
    Resolved =>
        /\ \A i \in 1..Len(_CLAUSE_ALIASES) :
              ds_call.clause_name \in Spellings(_CLAUSE_ALIASES[i].key)
                 => /\ ds_call.result = _CLAUSE_ALIASES[i].text
                    /\ ds_call.result = _normalize_clause_name(_CLAUSE_ALIASES[i].text)
        /\ \A name \in AliasKeys \cup AliasValues \cup {"my-own clause"} :
              ds_call.clause_name \in Spellings(name)
                 => /\ ds_call.result = _normalize_clause_name(name)
                    /\ _normalize_clause_name(ds_call.result) = ds_call.result

\* an alias written with capitals and padding resolved to its canonical key
C15_Witness ==
    /\ Resolved
    /\ ds_call.clause_name = "\nDuration  "
    /\ ds_call.result = "term"

FieldAsked == ds_call.fn = "get_field_from_clause"

\* C16: for every clause in the map that a load produced and every field
\* kind, recognized or not, get_field_from_clause returns a string that is not
\* empty (a value or a message) and does not raise
C16_FieldNeverEmpty ==
    (FieldAsked /\ ds_call.clause_name \in Keys(CLAUSES))
        => /\ ds_call.result # ""
           /\ ds_call.result # AttributeError
           /\ ds_call.result # None

\* an unrecognized field kind asked of a clause of the map: the excerpt
C16_Witness ==
    /\ FieldAsked
    /\ ds_call.clause_name \in Keys(CLAUSES)
    /\ ds_call.field = "colour"
    /\ ds_call.result = strip(Excerpt(ClauseOf(ds_call.clause_name)))
    /\ ds_call.result # ""

\* the sections of the loaded text, stripped
LoadedSections ==
    [i \in 1..Len(HrSplitFrom(loaded_text, 1)) |-> strip(HrSplitFrom(loaded_text, 1)[i])]

\* the patterns of the classification list that the heading matches
MatchingPatterns(header) ==
    {n \in 1..Len(SectionKeys) : SectionPatternMatches(n, lower(header))}

Earliest(S) == CHOOSE n \in S : \A m \in S : n <= m

\* C21: a numbered heading that matches several patterns of the classification
\* list is filed under the key of the earliest of them; only a heading that
\* matches none gets a derived slug, which is not empty and made of lowercase
\* letters, digits and underscores
C21_EarliestPatternWins ==
    \A i \in 1..Len(LoadedSections) :
        NumberedTitle(LoadedSections[i]) # None =>
            LET header == strip(NumberedTitle(LoadedSections[i]))
                key == _identify_clause(header)
            IN  /\ HasKey(CLAUSES, key)
                /\ Contains(DictGet(CLAUSES, key, ""), LoadedSections[i])
                /\ IF MatchingPatterns(header) # {}
                   THEN key = SectionKeys[Earliest(MatchingPatterns(header))]
                   ELSE /\ key # ""
                        /\ \A k \in 1..Len(key) : At(key, k) \in SlugChar \cup {"_"}

\* a heading that matches the confidentiality and the termination pattern was
\* filed under confidentiality, and one that matches none under its slug
C21_Witness ==
    /\ loaded_text = HeadingsDocument
    /\ MatchingPatterns("CONFIDENTIALITY AFTER TERMINATION") = {1, 6}
    /\ Keys(CLAUSES) = {"confidentiality", "term", "fees_costs_all", "non_compete"}
    /\ StartsWithAt(DictGet(CLAUSES, "confidentiality", ""), 1, "1. CONFIDENTIALITY")

====
